---- MODULE Spec2Model ----
(***************************************************************************)
(* Model of the three command-line tools of the repository:                *)
(*   compute_statistics.py, convert_numbers.py and word_count.py.          *)
(*                                                                         *)
(* Text is a sequence of one-character strings.  A number is an exact      *)
(* rational [n, d] in lowest terms with d > 0 (every finite double is a    *)
(* rational; the inputs of the model are small enough that the double      *)
(* parsed from a text and the decimal it denotes agree on the digits the   *)
(* program prints).  The field fl records whether Python holds the value   *)
(* as a float (TRUE) or as an int (FALSE); root marks the one value that   *)
(* is not rational, the square root of a non-square n/d.                   *)
(***************************************************************************)
EXTENDS Integers, Sequences, FiniteSets, TLC

(***************************************************************************)
(* Bounds of the model.                                                    *)
(***************************************************************************)
\* longest input file, in lines
MaxLines == 3
\* longest number sequence handed to get_mode on its own
MaxModeLen == 5
\* get_mode's inputs are the halves 1/2, 2/2, ..., MaxModeVal/2
MaxModeVal == 3
\* the converters' integer inputs are -MaxInt .. MaxInt
MaxInt == 300
\* the converters' fractional inputs are k/d, |k| <= MaxNumer, d in Denominators
MaxNumer == 40

(***************************************************************************)
(* Arithmetic helpers: Python's int and float operations on exact values.  *)
(***************************************************************************)
Abs(i) == IF i < 0 THEN -i ELSE i

RECURSIVE Gcd(_, _)
Gcd(a, b) == IF b = 0 THEN a ELSE Gcd(b, a % b)

\* the value n/d (d # 0) in lowest terms with a positive denominator
Rat(n, d) ==
    LET g == Gcd(Abs(n), Abs(d))
        s == IF d < 0 THEN -1 ELSE 1
    IN  [n |-> (s * n) \div g, d |-> (s * d) \div g]

RAdd(x, y) == Rat(x.n * y.d + y.n * x.d, x.d * y.d)
RSub(x, y) == Rat(x.n * y.d - y.n * x.d, x.d * y.d)
RMul(x, y) == Rat(x.n * y.n, x.d * y.d)
RDivInt(x, k) == Rat(x.n, x.d * k)
RLess(x, y) == x.n * y.d < y.n * x.d

\* float.is_integer()
is_integer(x) == x.d = 1

\* a Python float and a Python int holding the rational r
PyFloatOf(r) == [n |-> r.n, d |-> r.d, fl |-> TRUE, root |-> FALSE]
PyIntOf(r) == [n |-> r.n, d |-> r.d, fl |-> FALSE, root |-> FALSE]
\* the float nearest the irrational square root of r
PyRootOf(r) == [n |-> r.n, d |-> r.d, fl |-> TRUE, root |-> TRUE]
\* Python's None, in the shape of a number so that it fits an output line
None == [n |-> 0, d |-> 0, fl |-> FALSE, root |-> FALSE]
\* the rational a Python number holds
Q(v) == [n |-> v.n, d |-> v.d]

RECURSIVE Pow(_, _)
Pow(b, k) == IF k = 0 THEN 1 ELSE b * Pow(b, k - 1)

(***************************************************************************)
(* Text helpers.                                                           *)
(***************************************************************************)
Whitespace == {" ", "\t", "\n"}
DecDigits == <<"0", "1", "2", "3", "4", "5", "6", "7", "8", "9">>
IsDecDigit(c) == \E i \in 1..Len(DecDigits) : DecDigits[i] = c
DecDigitVal(c) == (CHOOSE i \in 1..Len(DecDigits) : DecDigits[i] = c) - 1

\* str.strip(): drop leading and trailing whitespace
RECURSIVE LStrip(_)
LStrip(s) ==
    IF s # <<>> /\ Head(s) \in Whitespace THEN LStrip(Tail(s)) ELSE s

RECURSIVE RStrip(_)
RStrip(s) ==
    IF s # <<>> /\ s[Len(s)] \in Whitespace
    THEN RStrip(SubSeq(s, 1, Len(s) - 1))
    ELSE s

Strip(s) == RStrip(LStrip(s))

\* the value of a string of decimal digits read as an integer
RECURSIVE DecValue(_)
DecValue(s) ==
    IF s = <<>> THEN 0
    ELSE 10 * DecValue(SubSeq(s, 1, Len(s) - 1)) + DecDigitVal(s[Len(s)])

AllDecDigits(s) == \A i \in 1..Len(s) : IsDecDigit(s[i])

\* position of the first "." of s, or 0
DotPos(s) ==
    IF \E i \in 1..Len(s) : s[i] = "."
    THEN CHOOSE i \in 1..Len(s) : s[i] = "." /\ \A j \in 1..(i - 1) : s[j] # "."
    ELSE 0

(***************************************************************************)
(* float(text): Python's float constructor on stripped text, for texts     *)
(* made of a sign, decimal digits, one point, and the words nan, inf and   *)
(* infinity.  The result is a record whose kind is "finite" (with the      *)
(* value), "nan", "inf", "-inf" or "ValueError".                           *)
(***************************************************************************)
PyFloat(text) ==
    LET s == Strip(text)
        signed == s # <<>> /\ Head(s) \in {"-", "+"}
        neg == s # <<>> /\ Head(s) = "-"
        body == IF signed THEN Tail(s) ELSE s
        dot == DotPos(body)
        ipart == IF dot = 0 THEN body ELSE SubSeq(body, 1, dot - 1)
        fpart == IF dot = 0 THEN <<>> ELSE SubSeq(body, dot + 1, Len(body))
        mag == RAdd(Rat(DecValue(ipart), 1),
                    Rat(DecValue(fpart), Pow(10, Len(fpart))))
    IN  IF body = <<"n", "a", "n">> THEN [kind |-> "nan", n |-> 0, d |-> 1]
        ELSE IF body \in {<<"i", "n", "f">>,
                          <<"i", "n", "f", "i", "n", "i", "t", "y">>}
        THEN [kind |-> IF neg THEN "-inf" ELSE "inf", n |-> 0, d |-> 1]
        ELSE IF AllDecDigits(ipart) /\ AllDecDigits(fpart)
                /\ Len(ipart) + Len(fpart) > 0
        THEN [kind |-> "finite",
              n |-> IF neg THEN -mag.n ELSE mag.n, d |-> mag.d]
        ELSE [kind |-> "ValueError", n |-> 0, d |-> 1]

(***************************************************************************)
(* convert_numbers.py: decimal_to_binary and decimal_to_hexa.  The         *)
(* argument is a Python number; the result is text.                        *)
(***************************************************************************)
\* at most this many fractional digits are produced
MaxFracDigits == 10

hexadecimal_digits ==
    <<"0", "1", "2", "3", "4", "5", "6", "7", "8", "9",
      "A", "B", "C", "D", "E", "F">>

\* str(remainder) for a remainder of a division by 2
BitStr(b) == IF b = 0 THEN "0" ELSE "1"

\* mutant: the remainders are appended, least significant digit first
RECURSIVE binary_integer_loop_appending(_, _)
binary_integer_loop_appending(integer_number, binary_integer) ==
    IF integer_number > 0
    THEN binary_integer_loop_appending(
             integer_number \div 2,
             binary_integer \o <<BitStr(integer_number % 2)>>)
    ELSE binary_integer

\* while integer_number > 0: prepend str(integer_number % 2); halve
RECURSIVE binary_integer_loop(_, _)
binary_integer_loop(integer_number, binary_integer) ==
    IF integer_number > 0
    THEN binary_integer_loop(integer_number \div 2,
                             <<BitStr(integer_number % 2)>> \o binary_integer)
    ELSE binary_integer

\* while fractional_number > 0 and len(binary_fraction) < 10: double it,
\* append its integer part, keep the rest.  fractional_number is fn/fd.
RECURSIVE binary_fraction_loop(_, _, _)
binary_fraction_loop(fn, fd, binary_fraction) ==
    IF fn > 0 /\ Len(binary_fraction) < MaxFracDigits
    THEN LET bit == (fn * 2) \div fd
         IN  binary_fraction_loop((fn * 2) - bit * fd, fd,
                                  binary_fraction \o <<BitStr(bit)>>)
    ELSE binary_fraction

decimal_to_binary(decimal_number) ==
    IF decimal_number.n = 0 THEN <<"0">>
    ELSE
    LET is_negative == decimal_number.n < 0
        mag == Abs(decimal_number.n)
        integer_number == mag \div decimal_number.d
        fractional_n == mag - integer_number * decimal_number.d
        loop_integer == binary_integer_loop(integer_number, <<>>)
        binary_integer == IF loop_integer = <<>> THEN <<"0">> ELSE loop_integer
        binary_fraction ==
            binary_fraction_loop(fractional_n, decimal_number.d, <<>>)
        binary_number ==
            IF binary_fraction # <<>>
            THEN binary_integer \o <<".">> \o binary_fraction
            ELSE binary_integer
    IN  IF is_negative THEN <<"-">> \o binary_number ELSE binary_number

\* while integer_number > 0: prepend hexadecimal_digits[integer_number % 16]
RECURSIVE hexadecimal_integer_loop(_, _)
hexadecimal_integer_loop(integer_number, hexadecimal_integer) ==
    IF integer_number > 0
    THEN hexadecimal_integer_loop(
             integer_number \div 16,
             <<hexadecimal_digits[(integer_number % 16) + 1]>>
                 \o hexadecimal_integer)
    ELSE hexadecimal_integer

\* mutant: the length test is <= 10, one digit too many
RECURSIVE hexadecimal_fraction_loop_off_by_one(_, _, _)
hexadecimal_fraction_loop_off_by_one(fn, fd, hexadecimal_fraction) ==
    IF fn > 0 /\ Len(hexadecimal_fraction) <= MaxFracDigits
    THEN LET digit == (fn * 16) \div fd
         IN  hexadecimal_fraction_loop_off_by_one(
                 (fn * 16) - digit * fd, fd,
                 hexadecimal_fraction \o <<hexadecimal_digits[digit + 1]>>)
    ELSE hexadecimal_fraction

\* while fractional_number > 0 and len(hexadecimal_fraction) < 10
RECURSIVE hexadecimal_fraction_loop(_, _, _)
hexadecimal_fraction_loop(fn, fd, hexadecimal_fraction) ==
    IF fn > 0 /\ Len(hexadecimal_fraction) < MaxFracDigits
    THEN LET digit == (fn * 16) \div fd
         IN  hexadecimal_fraction_loop(
                 (fn * 16) - digit * fd, fd,
                 hexadecimal_fraction \o <<hexadecimal_digits[digit + 1]>>)
    ELSE hexadecimal_fraction

decimal_to_hexa(decimal_number) ==
    IF decimal_number.n = 0 THEN <<"0">>
    ELSE
    LET is_negative == decimal_number.n < 0
        mag == Abs(decimal_number.n)
        integer_number == mag \div decimal_number.d
        fractional_n == mag - integer_number * decimal_number.d
        loop_integer == hexadecimal_integer_loop(integer_number, <<>>)
        hexadecimal_integer ==
            IF loop_integer = <<>> THEN <<"0">> ELSE loop_integer
        hexadecimal_fraction ==
            hexadecimal_fraction_loop(fractional_n, decimal_number.d, <<>>)
        hexadecimal_number ==
            IF hexadecimal_fraction # <<>>
            THEN hexadecimal_integer \o <<".">> \o hexadecimal_fraction
            ELSE hexadecimal_integer
    IN  IF is_negative THEN <<"-">> \o hexadecimal_number
        ELSE hexadecimal_number

(***************************************************************************)
(* compute_statistics.py: the statistics of a list of Python floats.       *)
(***************************************************************************)
\* int(v) if v.is_integer() else v, for a float v
Canonical(r) == IF is_integer(r) THEN PyIntOf(r) ELSE PyFloatOf(r)

RECURSIVE SumSeq(_)
SumSeq(numbers) ==
    IF numbers = <<>> THEN Rat(0, 1)
    ELSE RAdd(Q(Head(numbers)), SumSeq(Tail(numbers)))

get_mean(numbers) == Canonical(RDivInt(SumSeq(numbers), Len(numbers)))

\* sorted(numbers): insertion of each element into a sorted prefix
RECURSIVE Insert(_, _)
Insert(v, sorted) ==
    IF sorted = <<>> THEN <<v>>
    ELSE IF RLess(Q(v), Q(Head(sorted))) THEN <<v>> \o sorted
    ELSE <<Head(sorted)>> \o Insert(v, Tail(sorted))

RECURSIVE Sorted(_)
Sorted(numbers) ==
    IF numbers = <<>> THEN <<>>
    ELSE Insert(numbers[Len(numbers)],
                Sorted(SubSeq(numbers, 1, Len(numbers) - 1)))

get_median(numbers) ==
    LET sorted_numbers == Sorted(numbers)
        numbers_len == Len(numbers)
        \* Python indexes from 0, the model from 1
        mid1 == sorted_numbers[numbers_len \div 2]
        mid2 == sorted_numbers[(numbers_len \div 2) + 1]
        median == IF numbers_len % 2 = 0
                  THEN RDivInt(RAdd(Q(mid1), Q(mid2)), 2)
                  ELSE Q(mid2)
    IN  Canonical(median)

\* frequency[number]: the occurrences of number's value in numbers
Frequency(numbers, number) ==
    Cardinality({i \in 1..Len(numbers) : Q(numbers[i]) = Q(number)})

\* max(frequency.values())
MaxCount(numbers) ==
    CHOOSE c \in 1..Len(numbers) :
        /\ \E i \in 1..Len(numbers) : Frequency(numbers, numbers[i]) = c
        /\ \A i \in 1..Len(numbers) : Frequency(numbers, numbers[i]) <= c

\* for number in numbers: if frequency[number] == max_count: return it
RECURSIVE FirstWithCount(_, _, _)
FirstWithCount(numbers, rest, max_count) ==
    IF rest = <<>> THEN None
    ELSE IF Frequency(numbers, Head(rest)) = max_count
    THEN (IF Head(rest).fl /\ is_integer(Q(Head(rest)))
          THEN PyIntOf(Q(Head(rest)))
          ELSE Head(rest))
    ELSE FirstWithCount(numbers, Tail(rest), max_count)

\* mutant: the tie is broken by value, smallest first
get_mode_smallest_tie(numbers) ==
    LET max_count == MaxCount(numbers)
    IN  IF max_count = 1 THEN None
        ELSE FirstWithCount(numbers, Sorted(numbers), max_count)

get_mode(numbers) ==
    LET max_count == MaxCount(numbers)
    IN  IF max_count = 1 THEN None
        ELSE FirstWithCount(numbers, numbers, max_count)

RECURSIVE SquaredDeviations(_, _)
SquaredDeviations(numbers, local_mean) ==
    IF numbers = <<>> THEN Rat(0, 1)
    ELSE LET dev == RSub(Q(Head(numbers)), local_mean)
         IN  RAdd(RMul(dev, dev), SquaredDeviations(Tail(numbers), local_mean))

get_variance(numbers) ==
    LET local_mean == Q(get_mean(numbers))
        variance_sum == SquaredDeviations(numbers, local_mean)
    IN  Canonical(RDivInt(variance_sum, Len(numbers)))

\* the largest r with r * r <= k
RECURSIVE ISqrtFrom(_, _)
ISqrtFrom(k, r) == IF (r + 1) * (r + 1) > k THEN r ELSE ISqrtFrom(k, r + 1)

IsSquare(k) == ISqrtFrom(k, 0) * ISqrtFrom(k, 0) = k

\* variance_var ** 0.5: rational exactly when numerator and denominator of
\* the variance (in lowest terms) are both squares
get_std_dev(variance_var) ==
    IF IsSquare(variance_var.n) /\ IsSquare(variance_var.d)
    THEN Canonical(Rat(ISqrtFrom(variance_var.n, 0),
                       ISqrtFrom(variance_var.d, 0)))
    ELSE PyRootOf(Q(variance_var))

(***************************************************************************)
(* word_count.py: lower-casing, splitting and the word predicate.          *)
(***************************************************************************)
UpperLetters ==
    <<"A", "B", "C", "D", "E", "F", "G", "H", "I", "J", "K", "L", "M",
      "N", "O", "P", "Q", "R", "S", "T", "U", "V", "W", "X", "Y", "Z">>
LowerLetters ==
    <<"a", "b", "c", "d", "e", "f", "g", "h", "i", "j", "k", "l", "m",
      "n", "o", "p", "q", "r", "s", "t", "u", "v", "w", "x", "y", "z">>

IsUpper(c) == \E i \in 1..Len(UpperLetters) : UpperLetters[i] = c
IsLower(c) == \E i \in 1..Len(LowerLetters) : LowerLetters[i] = c

\* str.lower()
LowerChar(c) ==
    IF IsUpper(c)
    THEN LowerLetters[CHOOSE i \in 1..Len(UpperLetters) : UpperLetters[i] = c]
    ELSE c
Lower(s) == [i \in 1..Len(s) |-> LowerChar(s[i])]

\* str.split(): the maximal runs of non-whitespace characters, in order.
\* cur is the run being read, done the runs completed so far.
RECURSIVE SplitFrom(_, _, _)
SplitFrom(s, cur, done) ==
    IF s = <<>> THEN (IF cur = <<>> THEN done ELSE Append(done, cur))
    ELSE IF Head(s) \in Whitespace
    THEN SplitFrom(Tail(s), <<>>, IF cur = <<>> THEN done ELSE Append(done, cur))
    ELSE SplitFrom(Tail(s), Append(cur, Head(s)), done)

Split(s) == SplitFrom(s, <<>>, <<>>)

\* the character class [a-zA-Z0-9]
InClass(c) == IsLower(c) \/ IsUpper(c) \/ IsDecDigit(c)

\* re.fullmatch(r"[a-zA-Z0-9]+(-[a-zA-Z0-9]+)*", word), as the automaton of
\* the expression: "start" and "hyphen" need a class character next, "word"
\* is the accepting state.
RECURSIVE RegexRun(_, _)
RegexRun(word, state) ==
    IF word = <<>> THEN state = "word"
    ELSE IF InClass(Head(word)) THEN RegexRun(Tail(word), "word")
    ELSE IF Head(word) = "-" /\ state = "word" THEN RegexRun(Tail(word), "hyphen")
    ELSE FALSE

\* mutant: r"[a-zA-Z0-9]+(-[a-zA-Z0-9]*)*", a hyphen need not be followed
RECURSIVE RegexRunLoose(_, _)
RegexRunLoose(word, state) ==
    IF word = <<>> THEN state = "word"
    ELSE IF InClass(Head(word)) \/ (Head(word) = "-" /\ state = "word")
    THEN RegexRunLoose(Tail(word), "word")
    ELSE FALSE

is_valid_word_loose(word) == RegexRunLoose(word, "start")

is_valid_word(word) == RegexRun(word, "start")

\* word_map[word] += 1, or word_map[word] = 1 for a new key.  The dict is a
\* sequence of [word, count] records in insertion order.
MapHas(word_map, word) == \E i \in 1..Len(word_map) : word_map[i].word = word
MapIncrement(word_map, word) ==
    IF MapHas(word_map, word)
    THEN [i \in 1..Len(word_map) |->
            IF word_map[i].word = word
            THEN [word |-> word, count |-> word_map[i].count + 1]
            ELSE word_map[i]]
    ELSE Append(word_map, [word |-> word, count |-> 1])

(***************************************************************************)
(* The state of one run of one tool, and of the functions run on their own. *)
(***************************************************************************)
VARIABLES
    tool,           \* the tool that runs: "stats", "conv", "words"; "none" before
    pc,             \* position in main()
    argv,           \* TRUE when an input file argument was given
    input,          \* the input file: [exists, ascii, lines]
    line_number,    \* lines of the input consumed by the reading loop
    valid_numbers,  \* the numeric tools' list of parsed numbers
    word_list,      \* the word tool's token list
    word_index,     \* tokens consumed by the counting loop
    word_map,       \* the word tool's dict, in insertion order
    stats,          \* the statistics computed before the output phase
    stdout,         \* lines printed on standard output
    outfile,        \* content of each output file, in lines
    prior,          \* content of each output file when the run started
    exit_code,      \* -1 while running, then the process's exit status
    error,          \* the uncaught exception that ended the run, or "none"
    fn_arg,         \* argument of a function run on its own
    fn_out          \* its results

vars ==
    <<tool, pc, argv, input, line_number, valid_numbers, word_list,
      word_index, word_map, stats, stdout, outfile, prior, exit_code, error,
      fn_arg, fn_out>>

run_vars ==
    <<tool, pc, argv, input, line_number, valid_numbers, word_list,
      word_index, word_map, stats, stdout, outfile, prior, exit_code, error>>

Tools == {"stats", "conv", "words"}

\* OUTPUT_FILE of each tool
OUTPUT_FILE ==
    [t \in Tools |->
        CASE t = "stats" -> "StatisticsResults.txt"
          [] t = "conv" -> "ConvertionResults.txt"
          [] t = "words" -> "WordCountResults.txt"]

OutputFiles == {OUTPUT_FILE[t] : t \in Tools}

(***************************************************************************)
(* Output lines.  A line is a record: what it says (tag), the number it    *)
(* shows (val) and the texts it shows (s1, s2).  The execution time a line *)
(* reports is not modelled.                                                *)
(***************************************************************************)
Line(tag, val, s1, s2) == [tag |-> tag, val |-> val, s1 |-> s1, s2 |-> s2]
Msg(tag) == Line(tag, None, <<>>, <<>>)
Blank == Msg("")
\* a content ending in "\n" is printed as its line and an empty line
ExecutionTime == <<Msg("Execution time: "), Blank>>

SeqsUpTo(S, k) == UNION {[1..m -> S] : m \in 0..k}

\* the lines an input file of the numeric tools may hold
StatsLineTexts ==
    { <<"1">>, <<" ", "2", "\n">>, <<"2", ".", "5">>, <<"-", "1", "\n">>,
      <<"+", ".", "5">>, <<"1", " ", "2">>,
      <<"\n">>, <<"a", "b", "c">>, <<"n", "a", "n">>, <<"-", "i", "n", "f">>,
      <<"i", "n", "f", "\n">> }
ConvLineTexts ==
    { <<"5">>, <<"-", "5", ".", "5", "\n">>, <<"0", ".", "1">>,
      <<"x", "\n">>, <<"n", "a", "n">> }
\* the lines an input file of the word tool may hold
WordLineTexts ==
    { <<"a", "-", "b", " ", "A", "-", "B", "\n">>,
      <<"\t", "x", "1", " ", " ", "-", "a", "\n">>,
      <<"a", "-", " ", "x", "1">>,
      <<"a", "-", "-", "b", " ", "a", "_", "b">>,
      <<"\n">>,
      <<"X", "1", " ", "7", "-", "b", "-", "c">> }

LineTexts(t) ==
    CASE t = "stats" -> StatsLineTexts
      [] t = "conv" -> ConvLineTexts
      [] t = "words" -> WordLineTexts

\* the input files: missing, not ASCII-decodable, or ASCII text
InputFiles(t) ==
    { [exists |-> FALSE, ascii |-> FALSE, lines |-> <<>>],
      [exists |-> TRUE, ascii |-> FALSE, lines |-> <<>>] }
    \cup { [exists |-> TRUE, ascii |-> TRUE, lines |-> ls] :
             ls \in SeqsUpTo(LineTexts(t), MaxLines) }

(***************************************************************************)
(* What each tool writes in its output phase.                              *)
(***************************************************************************)
NoStats ==
    [mean |-> None, median |-> None, mode |-> None, variance |-> None,
     standard_deviation |-> None]

\* compute_statistics.py: six print_plus calls, the last ending in "\n"
StatsBlock(st) ==
    << Line("Mean: ", st.mean, <<>>, <<>>),
       Line("Median: ", st.median, <<>>, <<>>),
       Line("Mode: ", st.mode, <<>>, <<>>),
       Line("Variance: ", st.variance, <<>>, <<>>),
       Line("Standard Deviation: ", st.standard_deviation, <<>>, <<>>) >>
    \o ExecutionTime

\* convert_numbers.py: the table's two header lines and a row per number
ConvRow(number) ==
    Line("row", number, decimal_to_binary(number), decimal_to_hexa(number))

ConvBlock(numbers) ==
    << Msg("Decimal  Binary  Hexadecimal"), Msg("-----  -----  -----") >>
    \o [i \in 1..Len(numbers) |-> ConvRow(numbers[i])]

\* word_count.py: two header lines, a line per key, the execution time
WordsBlock(map) ==
    << Msg("Word  Frequency"), Msg("-----  -----") >>
    \o [i \in 1..Len(map) |->
          Line("word", PyIntOf(Rat(map[i].count, 1)), map[i].word, <<>>)]
    \o ExecutionTime

\* the output files before the run: absent, or left by an earlier run of
\* each tool
EarlierRun ==
    [f \in OutputFiles |->
        CASE f = OUTPUT_FILE["stats"] ->
               StatsBlock([mean |-> PyFloatOf(Rat(3, 2)),
                           median |-> PyFloatOf(Rat(3, 2)),
                           mode |-> None,
                           variance |-> PyFloatOf(Rat(1, 4)),
                           standard_deviation |-> PyFloatOf(Rat(1, 2))])
          [] f = OUTPUT_FILE["conv"] ->
               ConvBlock(<<PyFloatOf(Rat(1, 2)), PyFloatOf(Rat(1, 2))>>)
          [] f = OUTPUT_FILE["words"] ->
               WordsBlock(<<[word |-> <<"a">>, count |-> 1]>>)]

PriorContents == { [f \in OutputFiles |-> <<>>], EarlierRun }

NoFile == [exists |-> FALSE, ascii |-> FALSE, lines |-> <<>>]

(***************************************************************************)
(* The run of a tool.                                                      *)
(***************************************************************************)
RunInit ==
    /\ tool = "none"
    /\ pc = "idle"
    /\ argv = FALSE
    /\ input = NoFile
    /\ line_number = 0
    /\ valid_numbers = <<>>
    /\ word_list = <<>>
    /\ word_index = 0
    /\ word_map = <<>>
    /\ stats = NoStats
    /\ stdout = <<>>
    /\ prior \in PriorContents
    /\ outfile = prior
    /\ exit_code = -1
    /\ error = "none"

Init ==
    /\ RunInit
    /\ fn_arg = <<>>
    /\ fn_out = <<>>

\* print(content): the content's lines on standard output
print(lines) == stdout' = stdout \o lines

\* sys.exit(code)
Exit(code) == pc' = "exit" /\ exit_code' = code

\* print_plus for each of lines, inside "with open(OUTPUT_FILE, 'a')"
print_plus(lines, f) ==
    /\ stdout' = stdout \o lines
    /\ outfile' = [outfile EXCEPT ![f] = @ \o lines]

\* the tool is started on a command line
Launch ==
    /\ pc = "idle"
    /\ \E t \in Tools :
         /\ tool' = t
         /\ \/ argv' = FALSE /\ input' = NoFile
            \/ argv' = TRUE /\ input' \in InputFiles(t)
    /\ pc' = "args"
    /\ UNCHANGED <<line_number, valid_numbers, word_list, word_index,
                   word_map, stats, stdout, outfile, prior, exit_code, error,
                   fn_arg, fn_out>>

\* if len(sys.argv) > 1 ... else show_usage()
CheckArgs ==
    /\ pc = "args"
    /\ IF argv
       THEN pc' = "is_ascii" /\ UNCHANGED <<stdout, exit_code>>
       ELSE print(<<Msg("Usage: ")>>) /\ Exit(1)
    /\ UNCHANGED <<tool, argv, input, line_number, valid_numbers, word_list,
                   word_index, word_map, stats, outfile, prior, error,
                   fn_arg, fn_out>>

\* is_ascii(filepath): "True", "False", or the exception it lets through
is_ascii(file) ==
    IF ~file.exists THEN "False"
    ELSE IF ~file.ascii THEN "UnicodeDecodeError"
    ELSE "True"

\* if not is_ascii(input_file): print(...); sys.exit(1)
CheckInput ==
    /\ pc = "is_ascii"
    /\ LET r == is_ascii(input)
       IN  CASE r = "True" ->
                  pc' = "read" /\ UNCHANGED <<stdout, exit_code, error>>
             [] r = "False" ->
                  /\ print(<<Msg("Unable to open input file: ")>>)
                  /\ Exit(1)
                  /\ UNCHANGED error
             [] OTHER ->
                  \* an uncaught exception: a traceback on standard error
                  /\ error' = r
                  /\ Exit(1)
                  /\ UNCHANGED stdout
    /\ UNCHANGED <<tool, argv, input, line_number, valid_numbers, word_list,
                   word_index, word_map, stats, outfile, prior, fn_arg, fn_out>>

AtEOF == line_number = Len(input.lines)

\* mutant: the NaN test is missing
Rejected_without_nan_test(input_number) ==
    \/ input_number.kind = "ValueError"
    \/ input_number.kind \in {"inf", "-inf"}

\* the reading loop's try block: float(line) raised ValueError, or the
\* value is NaN, or it is an infinity: the line is rejected
Rejected(input_number) ==
    \/ input_number.kind = "ValueError"
    \/ input_number.kind = "nan"
    \/ input_number.kind \in {"inf", "-inf"}

Diagnostic(n, text) ==
    Line("Line is not a valid number: ", PyIntOf(Rat(n, 1)), text, <<>>)

\* compute_statistics.py: one pass of the reading loop
StatsReadLine ==
    /\ pc = "read" /\ tool = "stats" /\ ~AtEOF
    /\ LET line == Strip(input.lines[line_number + 1])
           input_number == PyFloat(line)
       IN  IF ~Rejected(input_number)
           THEN /\ valid_numbers' =
                     Append(valid_numbers, PyFloatOf(input_number))
                /\ UNCHANGED stdout
           ELSE /\ print(<<Diagnostic(line_number + 1, line)>>)
                /\ UNCHANGED valid_numbers
    /\ line_number' = line_number + 1
    /\ UNCHANGED <<tool, pc, argv, input, word_list, word_index, word_map,
                   stats, outfile, prior, exit_code, error, fn_arg, fn_out>>

\* mutant: the check for a single number is missing
CountCheck_without_single(numbers) ==
    IF Len(numbers) = 0 THEN "no valid numbers" ELSE "ok"

\* compute_statistics.py: the two length checks before the statistics
CountCheck(numbers) ==
    IF Len(numbers) = 0 THEN "no valid numbers"
    ELSE IF Len(numbers) = 1 THEN "only one number"
    ELSE "ok"

\* compute_statistics.py: the two length checks and the five statistics
StatsCompute ==
    /\ pc = "read" /\ tool = "stats" /\ AtEOF
    /\ CASE CountCheck(valid_numbers) = "no valid numbers" ->
              /\ print(<<Msg("Error: No valid numbers found in the input file.")>>)
              /\ Exit(1)
              /\ UNCHANGED stats
         [] CountCheck(valid_numbers) = "only one number" ->
              /\ print(<<Msg("Only one number provided.")>>)
              /\ Exit(1)
              /\ UNCHANGED stats
         [] OTHER ->
              /\ stats' =
                   [mean |-> get_mean(valid_numbers),
                    median |-> get_median(valid_numbers),
                    mode |-> get_mode(valid_numbers),
                    variance |-> get_variance(valid_numbers),
                    standard_deviation |->
                        get_std_dev(get_variance(valid_numbers))]
              /\ pc' = "output"
              /\ UNCHANGED <<stdout, exit_code>>
    /\ UNCHANGED <<tool, argv, input, line_number, valid_numbers, word_list,
                   word_index, word_map, outfile, prior, error, fn_arg, fn_out>>

\* compute_statistics.py: the output phase
StatsWrite ==
    /\ pc = "output" /\ tool = "stats"
    /\ print_plus(StatsBlock(stats), OUTPUT_FILE["stats"])
    /\ Exit(0)
    /\ UNCHANGED <<tool, argv, input, line_number, valid_numbers, word_list,
                   word_index, word_map, stats, prior, error, fn_arg, fn_out>>

\* convert_numbers.py: one pass of the reading loop
ConvReadLine ==
    /\ pc = "read" /\ tool = "conv" /\ ~AtEOF
    /\ LET line == Strip(input.lines[line_number + 1])
           input_number == PyFloat(line)
           as_float == PyFloatOf(input_number)
           as_shown == IF is_integer(input_number)
                       THEN PyIntOf(input_number) ELSE as_float
       IN  IF ~Rejected(input_number)
           THEN /\ valid_numbers' =
                     Append(Append(valid_numbers, as_float), as_shown)
                /\ UNCHANGED stdout
           ELSE /\ print(<<Diagnostic(line_number + 1, line)>>)
                /\ UNCHANGED valid_numbers
    /\ line_number' = line_number + 1
    /\ UNCHANGED <<tool, pc, argv, input, word_list, word_index, word_map,
                   stats, outfile, prior, exit_code, error, fn_arg, fn_out>>

\* convert_numbers.py: the output phase
ConvWrite ==
    /\ pc = "read" /\ tool = "conv" /\ AtEOF
    /\ print_plus(ConvBlock(valid_numbers), OUTPUT_FILE["conv"])
    /\ Exit(0)
    /\ UNCHANGED <<tool, argv, input, line_number, valid_numbers, word_list,
                   word_index, word_map, stats, prior, error, fn_arg, fn_out>>

\* word_count.py: word_list.extend(line.strip().lower().split())
WordsReadLine ==
    /\ pc = "read" /\ tool = "words" /\ ~AtEOF
    /\ word_list' =
         word_list \o Split(Lower(Strip(input.lines[line_number + 1])))
    /\ line_number' = line_number + 1
    /\ UNCHANGED <<tool, pc, argv, input, valid_numbers, word_index,
                   word_map, stats, stdout, outfile, prior, exit_code, error,
                   fn_arg, fn_out>>

\* word_count.py: one pass of the counting loop
WordsCount ==
    /\ pc = "read" /\ tool = "words" /\ AtEOF
    /\ word_index < Len(word_list)
    /\ LET word == word_list[word_index + 1]
       IN  IF ~is_valid_word(word)
           THEN /\ print(<<Line("Invalid data: is not a valid word", None,
                                word, <<>>)>>)
                /\ UNCHANGED word_map
           ELSE /\ word_map' = MapIncrement(word_map, word)
                /\ UNCHANGED stdout
    /\ word_index' = word_index + 1
    /\ UNCHANGED <<tool, pc, argv, input, line_number, valid_numbers,
                   word_list, stats, outfile, prior, exit_code, error,
                   fn_arg, fn_out>>

\* word_count.py: the output phase
WordsWrite ==
    /\ pc = "read" /\ tool = "words" /\ AtEOF
    /\ word_index = Len(word_list)
    /\ print_plus(WordsBlock(word_map), OUTPUT_FILE["words"])
    /\ Exit(0)
    /\ UNCHANGED <<tool, argv, input, line_number, valid_numbers, word_list,
                   word_index, word_map, stats, prior, error, fn_arg, fn_out>>

Next ==
    \/ Launch
    \/ CheckArgs
    \/ CheckInput
    \/ StatsReadLine
    \/ StatsCompute
    \/ StatsWrite
    \/ ConvReadLine
    \/ ConvWrite
    \/ WordsReadLine
    \/ WordsCount
    \/ WordsWrite

Spec == Init /\ [][Next]_vars

(***************************************************************************)
(* The converters run on their own, on integers and on fractions.          *)
(***************************************************************************)
\* denominators of the fractional inputs: terminating in fewer than ten
\* binary digits, in exactly ten, in more than ten, and never
Denominators == {2, 3, 5, 10, 16, 512, 1024, 2048}

ConvInputs ==
    { PyIntOf(Rat(i, 1)) : i \in (-MaxInt)..MaxInt }
    \cup { PyFloatOf(Rat(i, 1)) : i \in (-MaxInt)..MaxInt }
    \cup { PyFloatOf(Rat(k, d)) : k \in (-MaxNumer)..MaxNumer, d \in Denominators }

NoOutput == [f \in OutputFiles |-> <<>>]

InitConvert ==
    /\ RunInit
    /\ prior = NoOutput
    /\ fn_arg \in ConvInputs
    /\ fn_out = [bin |-> <<>>, hex |-> <<>>]

ToBinary ==
    /\ fn_out.bin = <<>>
    /\ fn_out' = [fn_out EXCEPT !.bin = decimal_to_binary(fn_arg)]
    /\ UNCHANGED <<fn_arg, run_vars>>

ToHexa ==
    /\ fn_out.hex = <<>>
    /\ fn_out' = [fn_out EXCEPT !.hex = decimal_to_hexa(fn_arg)]
    /\ UNCHANGED <<fn_arg, run_vars>>

NextConvert == ToBinary \/ ToHexa

SpecConvert == InitConvert /\ [][NextConvert]_vars

(***************************************************************************)
(* get_mode run on its own.                                                *)
(***************************************************************************)
ModeValues == { PyFloatOf(Rat(k, 2)) : k \in 1..MaxModeVal }

ModeInputs == UNION {[1..m -> ModeValues] : m \in 2..MaxModeLen}

InitMode ==
    /\ RunInit
    /\ prior = NoOutput
    /\ fn_arg \in ModeInputs
    /\ fn_out = [done |-> FALSE, mode |-> None]

ApplyMode ==
    /\ ~fn_out.done
    /\ fn_out' = [done |-> TRUE, mode |-> get_mode(fn_arg)]
    /\ UNCHANGED <<fn_arg, run_vars>>

NextMode == ApplyMode

SpecMode == InitMode /\ [][NextMode]_vars

(***************************************************************************)
(* Reading a converter's output back.                                      *)
(***************************************************************************)
\* the value of a digit character, or 16 for any other character
DigitValue(c) ==
    IF \E i \in 1..16 : hexadecimal_digits[i] = c
    THEN (CHOOSE i \in 1..16 : hexadecimal_digits[i] = c) - 1
    ELSE 16

Unsigned(out) == IF out # <<>> /\ Head(out) = "-" THEN Tail(out) ELSE out
IntDigitsOf(out) ==
    LET u == Unsigned(out)
    IN  IF DotPos(u) = 0 THEN u ELSE SubSeq(u, 1, DotPos(u) - 1)
FracDigitsOf(out) ==
    LET u == Unsigned(out)
    IN  IF DotPos(u) = 0 THEN <<>> ELSE SubSeq(u, DotPos(u) + 1, Len(u))

AllDigits(s, base) == \A i \in 1..Len(s) : DigitValue(s[i]) < base

\* the numeral s read in the base
RECURSIVE NumeralValue(_, _)
NumeralValue(s, base) ==
    IF s = <<>> THEN 0
    ELSE base * NumeralValue(SubSeq(s, 1, Len(s) - 1), base)
         + DigitValue(s[Len(s)])

\* base^k modulo m
RECURSIVE PowMod(_, _, _)
PowMod(base, k, m) ==
    IF k = 0 THEN 1 % m ELSE (base * PowMod(base, k - 1, m)) % m

\* the i-th fractional digit of fn/fd (0 <= fn < fd) in the base:
\* floor(fn/fd * base^i) mod base
TrueDigit(fn, fd, base, i) ==
    (((fn * PowMod(base, i - 1, fd)) % fd) * base) \div fd

\* fn/fd has at most k fractional digits in the base
TerminatesBy(fn, fd, base, k) == (fn * PowMod(base, k, fd)) % fd = 0

FractionOK(arg, out, base) ==
    LET mag == Abs(arg.n)
        fn == mag % arg.d
        u == Unsigned(out)
        ipart == IntDigitsOf(out)
        frac == FracDigitsOf(out)
        k == Len(frac)
    IN  /\ k <= 10
        /\ (DotPos(u) # 0) <=> (fn # 0)
        /\ DotPos(u) # 0 => k >= 1
        /\ AllDigits(ipart, base) /\ AllDigits(frac, base)
        /\ NumeralValue(ipart, base) = mag \div arg.d
        \* every digit is the digit of |x| at its place: a truncation
        /\ \A i \in 1..k : DigitValue(frac[i]) = TrueDigit(fn, arg.d, base, i)
        \* fewer than ten digits: production stopped at remainder 0, so the
        \* output is |x| exactly and ends in a non-zero digit
        /\ k < 10 =>
             /\ Rat(NumeralValue(ipart \o frac, base), Pow(base, k))
                  = Rat(mag, arg.d)
             /\ k >= 1 => frac[k] # "0"
        \* ten digits: the remainder was not 0 after nine
        /\ k = 10 => ~TerminatesBy(fn, arg.d, base, 9)

\* C6: for every non-zero x and both bases the output has at most 10
\* fractional digits, has the "." exactly when a fractional digit was
\* produced, stops producing digits once the remainder is 0 (fewer than 10
\* digits: the output is |x| exactly), and a 10-digit fraction is the
\* truncation of |x| to 10 digits in the base.
C6_FractionDigits ==
    fn_arg.n # 0 =>
        /\ fn_out.bin # <<>> => FractionOK(fn_arg, fn_out.bin, 2)
        /\ fn_out.hex # <<>> => FractionOK(fn_arg, fn_out.hex, 16)

\* -1/10: ten digits in both bases, the expansion cut off
C6_Witness ==
    /\ fn_arg = PyFloatOf(Rat(-1, 10))
    /\ fn_out.bin
         = <<"-", "0", ".", "0", "0", "0", "1", "1", "0", "0", "1", "1", "0">>
    /\ fn_out.hex
         = <<"-", "0", ".", "1", "9", "9", "9", "9", "9", "9", "9", "9", "9">>

\* the signed numeral out read in the base
SignedValue(out, base) ==
    IF out # <<>> /\ Head(out) = "-"
    THEN -NumeralValue(Tail(out), base)
    ELSE NumeralValue(out, base)

IntegerOK(n, out, base) ==
    LET u == Unsigned(out)
    IN  /\ \A i \in 1..Len(out) : out[i] # "."
        /\ (out # <<>> /\ Head(out) = "-") <=> (n < 0)
        /\ u # <<>> /\ AllDigits(u, base)
        /\ Head(u) = "0" => u = <<"0">>
        /\ SignedValue(out, base) = n

\* C7: for every integer n of the range, decimal_to_binary(n) has no ".",
\* no leading zero (but for "0"), a leading "-" exactly when n < 0, and read
\* as a signed base-2 numeral is n; the same for decimal_to_hexa in base 16.
C7_IntegerRoundTrip ==
    fn_arg.d = 1 =>
        /\ fn_out.bin # <<>> => IntegerOK(fn_arg.n, fn_out.bin, 2)
        /\ fn_out.hex # <<>> => IntegerOK(fn_arg.n, fn_out.hex, 16)

C7_Witness ==
    /\ fn_arg = PyIntOf(Rat(-255, 1))
    /\ fn_out.bin = <<"-", "1", "1", "1", "1", "1", "1", "1", "1">>
    /\ fn_out.hex = <<"-", "F", "F">>

(***************************************************************************)
(* get_mode.                                                               *)
(***************************************************************************)
Occurrences(numbers, i) ==
    Cardinality({j \in 1..Len(numbers) : Q(numbers[j]) = Q(numbers[i])})

IsMaximal(numbers, i) ==
    \A j \in 1..Len(numbers) : Occurrences(numbers, j) <= Occurrences(numbers, i)

AllDistinct(numbers) ==
    \A i, j \in 1..Len(numbers) : i # j => Q(numbers[i]) # Q(numbers[j])

\* C5: for a sequence of length >= 2, get_mode returns None iff all values
\* are distinct; otherwise the value at the smallest index whose number of
\* occurrences is the maximum.
C5_ModeFirstTiedMax ==
    fn_out.done =>
        /\ (fn_out.mode = None) <=> AllDistinct(fn_arg)
        /\ ~AllDistinct(fn_arg) =>
             \E i \in 1..Len(fn_arg) :
                /\ IsMaximal(fn_arg, i)
                /\ \A j \in 1..(i - 1) : ~IsMaximal(fn_arg, j)
                /\ Q(fn_out.mode) = Q(fn_arg[i])
                /\ fn_out.mode.d # 0

\* the shape of [2, 2, 1, 1, 3]: two tied values, the larger one first
C5_Witness ==
    /\ fn_out.done
    /\ fn_arg = << PyFloatOf(Rat(1, 1)), PyFloatOf(Rat(1, 1)),
                   PyFloatOf(Rat(1, 2)), PyFloatOf(Rat(1, 2)),
                   PyFloatOf(Rat(3, 2)) >>
    /\ fn_out.mode = PyIntOf(Rat(1, 1))

(***************************************************************************)
(* The runs of the tools.                                                  *)
(***************************************************************************)
Readable == argv /\ input.exists /\ input.ascii

\* the input lines that parse as a finite number, in order
RECURSIVE ValidLines(_)
ValidLines(lines) ==
    IF lines = <<>> THEN <<>>
    ELSE IF PyFloat(Strip(Head(lines))).kind = "finite"
    THEN <<Head(lines)>> \o ValidLines(Tail(lines))
    ELSE ValidLines(Tail(lines))

\* the diagnostics of the other lines, with their 1-based line numbers
RECURSIVE DiagnosticsFrom(_, _)
DiagnosticsFrom(lines, n) ==
    IF lines = <<>> THEN <<>>
    ELSE IF PyFloat(Strip(Head(lines))).kind = "finite"
    THEN DiagnosticsFrom(Tail(lines), n + 1)
    ELSE <<Diagnostic(n, Strip(Head(lines)))>>
         \o DiagnosticsFrom(Tail(lines), n + 1)

ValueOfLine(line) == Q(PyFloat(Strip(line)))

\* what the run appended to its output file (the file only grows)
Appended ==
    LET f == OUTPUT_FILE[tool]
    IN  SubSeq(outfile[f], Len(prior[f]) + 1, Len(outfile[f]))

\* C1: the conversion tool writes exactly one row per valid input number, in
\* input line order: the i-th row is the (value, binary, hexadecimal) triple
\* of the i-th valid line.
C1_OneRowPerValidNumber ==
    (tool = "conv" /\ pc = "exit" /\ exit_code = 0) =>
        LET valid == ValidLines(input.lines)
            rows == SubSeq(Appended, 3, Len(Appended))
        IN  /\ Len(rows) = Len(valid)
            /\ \A i \in 1..Len(valid) :
                  /\ Q(rows[i].val) = ValueOfLine(valid[i])
                  /\ rows[i].s1 = decimal_to_binary(rows[i].val)
                  /\ rows[i].s2 = decimal_to_hexa(rows[i].val)

\* C2: in each tool a missing input file and one that is not ASCII-decodable
\* both end the run with the message "Unable to open input file", exit code
\* 1, no line read and nothing written.
C2_UnreadableInputReported ==
    (pc = "exit" /\ argv /\ ~(input.exists /\ input.ascii)) =>
        /\ stdout = <<Msg("Unable to open input file: ")>>
        /\ exit_code = 1
        /\ error = "none"
        /\ line_number = 0
        /\ outfile = prior

\* C3: a statistics run with zero or one valid number ends with exit code 1
\* and the output file unchanged; only a run with two or more valid numbers
\* writes a statistics block; no run that ends in a fatal error has written
\* to the output file.
C3_NoOutputOnFatalError ==
    /\ (tool = "stats" /\ pc = "exit" /\ Readable) =>
          IF Len(ValidLines(input.lines)) <= 1
          THEN exit_code = 1 /\ outfile = prior
          ELSE /\ exit_code = 0
               /\ outfile = [prior EXCEPT ![OUTPUT_FILE["stats"]] =
                                @ \o StatsBlock(stats)]
    /\ (tool = "stats" /\ outfile # prior) =>
          Readable /\ Len(ValidLines(input.lines)) >= 2
    /\ (exit_code # 0 \/ error # "none") => outfile = prior

C3_Witness ==
    /\ tool = "stats" /\ pc = "exit" /\ exit_code = 1
    /\ Len(valid_numbers) = 1
    /\ Len(input.lines) = 3
    /\ prior = EarlierRun /\ outfile = prior

\* C4: in the statistics tool, after the reading loop the dataset is exactly
\* the lines whose trimmed text parses as a finite number, in line order, one
\* entry per line; every other line has produced exactly one diagnostic with
\* its 1-based line number; no line stops the loop.
C4_DatasetIsValidLines ==
    (tool = "stats" /\ pc \in {"read", "output", "exit"} /\ Readable) =>
        LET seen == SubSeq(input.lines, 1, line_number)
            valid == ValidLines(seen)
            diags == DiagnosticsFrom(seen, 1)
        IN  /\ Len(valid_numbers) = Len(valid)
            /\ \A i \in 1..Len(valid) :
                  /\ Q(valid_numbers[i]) = ValueOfLine(valid[i])
                  /\ valid_numbers[i].fl
            /\ Len(stdout) >= Len(diags)
            /\ SubSeq(stdout, 1, Len(diags)) = diags
            /\ pc = "read" => stdout = diags
            \* the loop is left only at the end of the file
            /\ pc # "read" => line_number = Len(input.lines)

C4_Witness ==
    /\ tool = "stats" /\ pc = "read" /\ AtEOF
    /\ input.lines = << <<"1">>, <<"n", "a", "n">>, <<" ", "2", "\n">> >>
    /\ valid_numbers = <<PyFloatOf(Rat(1, 1)), PyFloatOf(Rat(2, 1))>>
    /\ stdout = <<Diagnostic(2, <<"n", "a", "n">>)>>

\* alnum+ ( '-' alnum+ )*: alphanumerics and hyphens only, no leading,
\* trailing or doubled hyphen
WellFormed(w) ==
    /\ Len(w) >= 1
    /\ \A i \in 1..Len(w) : InClass(w[i]) \/ w[i] = "-"
    /\ w[1] # "-"
    /\ w[Len(w)] # "-"
    /\ \A i \in 1..(Len(w) - 1) : ~(w[i] = "-" /\ w[i + 1] = "-")

\* the lower-cased whitespace-delimited tokens of the file, in order
RECURSIVE FileTokens(_)
FileTokens(lines) ==
    IF lines = <<>> THEN <<>>
    ELSE Split(Lower(Strip(Head(lines)))) \o FileTokens(Tail(lines))

TimesIn(toks, w) == Cardinality({j \in 1..Len(toks) : toks[j] = w})

RECURSIVE InvalidReports(_)
InvalidReports(toks) ==
    IF toks = <<>> THEN <<>>
    ELSE IF WellFormed(Head(toks)) THEN InvalidReports(Tail(toks))
    ELSE <<Line("Invalid data: is not a valid word", None, Head(toks), <<>>)>>
         \o InvalidReports(Tail(toks))

RECURSIVE SumCounts(_)
SumCounts(map) ==
    IF map = <<>> THEN 0 ELSE Head(map).count + SumCounts(Tail(map))

\* C8: in the word tool, after the counting loop the map holds exactly the
\* lower-cased tokens of the shape alnum+('-'alnum+)*, each with its number
\* of occurrences; every other token was reported once per occurrence, is
\* not in the map and did not stop the loop; the frequencies sum to the
\* number of valid tokens.
C8_WordMapIsValidTokens ==
    (tool = "words" /\ Readable
        /\ \/ pc = "exit"
           \/ pc = "read" /\ AtEOF /\ word_index = Len(word_list)) =>
        LET toks == FileTokens(input.lines)
            valid == {j \in 1..Len(toks) : WellFormed(toks[j])}
        IN  /\ \A j \in 1..Len(toks) :
                  WellFormed(toks[j]) <=> MapHas(word_map, toks[j])
            /\ \A i \in 1..Len(word_map) :
                  /\ TimesIn(toks, word_map[i].word) >= 1
                  /\ word_map[i].count = TimesIn(toks, word_map[i].word)
                  /\ \A k \in 1..Len(word_map) :
                        word_map[k].word = word_map[i].word => k = i
            /\ SubSeq(stdout, 1, Len(InvalidReports(toks)))
                  = InvalidReports(toks)
            /\ pc = "read" => stdout = InvalidReports(toks)
            /\ SumCounts(word_map) = Cardinality(valid)
            \* the loop has passed over every token of the file
            /\ word_list = toks

C8_Witness ==
    /\ tool = "words" /\ pc = "exit" /\ exit_code = 0
    /\ input.lines = << <<"a", "-", "b", " ", "A", "-", "B", "\n">>,
                        <<"a", "-", " ", "x", "1">> >>
    /\ word_map = << [word |-> <<"a", "-", "b">>, count |-> 2],
                     [word |-> <<"x", "1">>, count |-> 1] >>

\* C9: for each tool, a run that reaches the output phase leaves the file
\* equal to its previous content followed by exactly one block followed by
\* a blank line, and every line appended is also on standard output, in the
\* same order.
C9_AppendsBlankTerminatedBlock ==
    (pc = "exit" /\ exit_code = 0) =>
        LET f == OUTPUT_FILE[tool]
            n == Len(Appended)
        IN  /\ Len(outfile[f]) >= Len(prior[f])
            /\ SubSeq(outfile[f], 1, Len(prior[f])) = prior[f]
            /\ \A g \in OutputFiles \ {f} : outfile[g] = prior[g]
            /\ n >= 2
            /\ Appended[n] = Blank
            /\ \A i \in 1..(n - 1) : Appended[i] # Blank
            /\ Len(stdout) >= n
            /\ SubSeq(stdout, Len(stdout) - n + 1, Len(stdout)) = Appended

\* C10: a conversion run whose input yields no valid number ends with exit
\* code 1 and appends no table.
C10_ConversionNeedsANumber ==
    (tool = "conv" /\ pc = "exit" /\ Readable
        /\ ValidLines(input.lines) = <<>>) =>
        /\ exit_code = 1
        /\ outfile = prior
====
